---- MODULE Spec2Model ----
(***************************************************************************)
(* Model of src/src/app/trade-system.tsx: the brokerage calculator          *)
(* (calcBrokerage), the report builder (buildReport), the grand-total folds *)
(* and the entry / settings handlers of the TradeSystem component.          *)
(*                                                                          *)
(* The file holds two copies of the engine: lines 1-563 and a typed copy,   *)
(* lines 565-722, whose calcBrokerage and updateTrade differ.  Which of the *)
(* two declarations a build binds is not fixed by the source, so the        *)
(* variable build chooses one of them in Init and never changes.            *)
(*                                                                          *)
(* Numbers are exact rationals <<n, d>> (d > 0, lowest terms) extended with *)
(* NaN = <<0,0>>, Infinity = <<1,0>> and -Infinity = <<-1,0>>; the rounding *)
(* of IEEE doubles and the sign of zero are not modelled.  Strings that the *)
(* code parses, formats or uppercases are sequences of one-character        *)
(* strings.                                                                 *)
(***************************************************************************)
EXTENDS Integers, Sequences, FiniteSets, TLC

VARIABLES build, trades, nseRate, mcxScripts, report, nextId, nops, pc

vars == <<build, trades, nseRate, mcxScripts, report, nextId, nops, pc>>

\* ------------------------------------------------------------------ bounds
MaxOps == 3
MaxTrades == 2
MaxMcx == 6
MaxLen == 3

\* ------------------------------------------------------------------ numbers
NaN == <<0, 0>>
PosInf == <<1, 0>>
Zero == <<0, 1>>

Abs(x) == IF x < 0 THEN -x ELSE x
Sign(x) == IF x < 0 THEN -1 ELSE IF x > 0 THEN 1 ELSE 0

RECURSIVE GCD(_, _)
GCD(a, b) == IF b = 0 THEN a ELSE GCD(b, a % b)

Norm(n, d) ==
    IF d = 0 THEN <<Sign(n), 0>>
    ELSE IF n = 0 THEN <<0, 1>>
    ELSE LET g == GCD(Abs(n), d) IN <<n \div g, d \div g>>

Num(n) == <<n, 1>>
IsNaN(x) == x = NaN
IsFinite(x) == x[2] > 0
Neg(x) == <<-x[1], x[2]>>
Mul(a, b) == Norm(a[1] * b[1], a[2] * b[2])
Recip(x) ==
    IF x[1] > 0 THEN <<x[2], x[1]>>
    ELSE IF x[1] < 0 THEN <<-x[2], -x[1]>>
    ELSE IF x[2] > 0 THEN PosInf ELSE NaN
Div(a, b) == Mul(a, Recip(b))
Add(a, b) ==
    IF a[2] = 0 /\ b[2] = 0
    THEN (IF a[1] = b[1] THEN a ELSE NaN)
    ELSE LET g == GCD(a[2], b[2])
         IN  IF g = 0 THEN Norm(a[1] + b[1], 0)
             ELSE Norm(a[1] * (b[2] \div g) + b[1] * (a[2] \div g), (a[2] \div g) * b[2])
Sub(a, b) == Add(a, Neg(b))
\* a >= b as JavaScript compares numbers (false when either is NaN)
Geq(a, b) ==
    /\ ~IsNaN(a) /\ ~IsNaN(b)
    /\ IF a[2] = 0 /\ b[2] = 0 THEN a[1] >= b[1]
       ELSE IF a[2] = 0 THEN a[1] > 0
       ELSE IF b[2] = 0 THEN b[1] < 0
       ELSE a[1] * b[2] >= b[1] * a[2]
\* x || y on numbers: 0 and NaN are falsy
OrElse(x, y) == IF x = NaN \/ x = Zero THEN y ELSE x

\* ------------------------------------------------------------------ strings
Digits == <<"0", "1", "2", "3", "4", "5", "6", "7", "8", "9">>
LowerCase == <<"a", "b", "c", "d", "e", "f", "g", "h", "i", "j", "k", "l", "m",
               "n", "o", "p", "q", "r", "s", "t", "u", "v", "w", "x", "y", "z">>
UpperCase == <<"A", "B", "C", "D", "E", "F", "G", "H", "I", "J", "K", "L", "M",
               "N", "O", "P", "Q", "R", "S", "T", "U", "V", "W", "X", "Y", "Z">>
Range(s) == {s[i] : i \in DOMAIN s}
IsDigit(c) == c \in Range(Digits)
DigitVal(c) == (CHOOSE i \in DOMAIN Digits : Digits[i] = c) - 1

UpperChar(c) ==
    IF c \in Range(LowerCase)
    THEN UpperCase[CHOOSE i \in DOMAIN LowerCase : LowerCase[i] = c]
    ELSE c
\* String.prototype.toUpperCase
toUpperCase(s) == [i \in DOMAIN s |-> UpperChar(s[i])]

RECURSIVE DigitRun(_, _)
DigitRun(s, i) == IF i <= Len(s) /\ IsDigit(s[i]) THEN 1 + DigitRun(s, i + 1) ELSE 0

RECURSIVE DigitsVal(_, _, _)
DigitsVal(s, i, n) ==
    IF n = 0 THEN 0 ELSE DigitsVal(s, i, n - 1) * 10 + DigitVal(s[i + n - 1])

RECURSIVE Pow10(_)
Pow10(k) == IF k = 0 THEN 1 ELSE 10 * Pow10(k - 1)

\* parseFloat: the longest prefix [+-] digits [. digits]; NaN when there is none.
\* (Leading blanks, exponents and "Infinity" are outside the alphabet used here.)
parseFloat(s) ==
    LET hasSign == Len(s) >= 1 /\ s[1] \in {"-", "+"}
        i0 == IF hasSign THEN 2 ELSE 1
        ni == DigitRun(s, i0)
        j == i0 + ni
        nf == IF j <= Len(s) /\ s[j] = "." THEN DigitRun(s, j + 1) ELSE 0
        mag == Norm(DigitsVal(s, i0, ni) * Pow10(nf) + DigitsVal(s, j + 1, nf), Pow10(nf))
    IN  IF ni = 0 /\ nf = 0 THEN NaN
        ELSE IF hasSign /\ s[1] = "-" THEN Neg(mag) ELSE mag

RECURSIVE IntToChars(_)
IntToChars(n) ==
    IF n < 10 THEN <<Digits[n + 1]>> ELSE Append(IntToChars(n \div 10), Digits[(n % 10) + 1])

\* Number.prototype.toFixed(2): round the magnitude to hundredths, ties upward
toFixed2(x) ==
    IF IsNaN(x) THEN <<"N", "a", "N">>
    ELSE IF ~IsFinite(x)
    THEN (IF x[1] < 0 THEN <<"-">> ELSE <<>>) \o <<"I", "n", "f", "i", "n", "i", "t", "y">>
    ELSE LET m == (2 * 100 * Abs(x[1]) + x[2]) \div (2 * x[2])
             body == IntToChars(m \div 100) \o <<".">>
                     \o <<Digits[((m % 100) \div 10) + 1], Digits[(m % 10) + 1]>>
         IN  IF x[1] < 0 THEN <<"-">> \o body ELSE body

\* `s || d` on strings: the empty string is falsy
StrOr(s, d) == IF s = <<>> THEN d ELSE s

\* String literals of the source, as character sequences
UNKNOWN == <<"U", "N", "K", "N", "O", "W", "N">>
CRUDEOIL == <<"C", "R", "U", "D", "E", "O", "I", "L">>
GOLD == <<"G", "O", "L", "D">>
SILVER == <<"S", "I", "L", "V", "E", "R">>
COPPER == <<"C", "O", "P", "P", "E", "R">>
NATURALGAS == <<"N", "A", "T", "U", "R", "A", "L", "G", "A", "S">>

\* ------------------------------------------------------------------ defaults
DEFAULT_NSE_RATE == 3000
DEFAULT_MCX_SCRIPTS ==
    << [script |-> CRUDEOIL, lotQty |-> Num(100), rate |-> Num(40)],
       [script |-> GOLD, lotQty |-> Num(1), rate |-> Num(30)],
       [script |-> SILVER, lotQty |-> Num(30), rate |-> Num(25)],
       [script |-> COPPER, lotQty |-> Num(2500), rate |-> Num(20)],
       [script |-> NATURALGAS, lotQty |-> Num(1250), rate |-> Num(35)] >>

defaultRow(id) ==
    [id |-> id, Date |-> "", Action |-> "BUY", Qty |-> <<>>, Price |-> <<>>, Vol |-> <<>>,
     Script |-> <<>>, Type |-> "NORMAL", Exchange |-> "NSE"]

\* ------------------------------------------------------------------ brokerage
\* Mutant of mcxMapFrom: the map is keyed by the symbol as configured
RECURSIVE mcxMapFrom_RawKey(_, _, _)
mcxMapFrom_RawKey(list, i, m) ==
    IF i > Len(list) THEN m
    ELSE LET key == list[i].script
         IN  mcxMapFrom_RawKey(list, i + 1,
                 [k \in (DOMAIN m) \cup {key} |-> IF k = key THEN list[i] ELSE m[k]])

\* useMemo mcxMap: forEach entry, m[entry.script.toUpperCase()] = entry
RECURSIVE mcxMapFrom(_, _, _)
mcxMapFrom(list, i, m) ==
    IF i > Len(list) THEN m
    ELSE LET key == toUpperCase(list[i].script)
         IN  mcxMapFrom(list, i + 1,
                 [k \in (DOMAIN m) \cup {key} |-> IF k = key THEN list[i] ELSE m[k]])

EmptyObject == [k \in {} |-> {}]

mcxMap(list) == mcxMapFrom(list, 1, EmptyObject)

ConstTen == 10000000
DefaultLotQty == 1
DefaultLotRate == 40

\* Mutant of calcBrokerageA: the FORWARD exemption is dropped
calcBrokerageA_NoForward(trade, rate, map) ==
    LET vol == OrElse(parseFloat(trade.Vol), Zero)
        qty == OrElse(parseFloat(trade.Qty), Zero)
        scriptKey == toUpperCase(trade.Script)
        found == scriptKey \in DOMAIN map
    IN  IF found \/ trade.Exchange = "MCX"
        THEN Mul(Div(qty, IF found THEN map[scriptKey].lotQty ELSE Num(1)),
                 IF found THEN map[scriptKey].rate ELSE Num(40))
        ELSE Mul(vol, Div(rate, Num(10000000)))

\* Mutant of flatBrokerage: the rate taken per million instead of per ten million
flatBrokerage_PerMillion(vol, rate) == Mul(vol, Div(rate, Num(1000000)))

\* (qty / lotQty) * rate (lines 50, 623)
lotBrokerage(qty, lotQty, lotRate) == Mul(Div(qty, lotQty), lotRate)

\* vol * (nseRate / 10_000_000) (lines 52, 626)
flatBrokerage(vol, rate) == Mul(vol, Div(rate, Num(ConstTen)))

\* First copy (lines 39-53): entry found OR exchange MCX; defaults 1 and 40
calcBrokerageA(trade, rate, map) ==
    IF trade.Type = "FORWARD" THEN Zero
    ELSE LET vol == OrElse(parseFloat(trade.Vol), Zero)
             qty == OrElse(parseFloat(trade.Qty), Zero)
             scriptKey == toUpperCase(trade.Script)
             found == scriptKey \in DOMAIN map
         IN  IF found \/ trade.Exchange = "MCX"
             THEN LET lotQty == IF found THEN map[scriptKey].lotQty ELSE Num(DefaultLotQty)
                      lotRate == IF found THEN map[scriptKey].rate ELSE Num(DefaultLotRate)
                  IN  lotBrokerage(qty, lotQty, lotRate)
             ELSE flatBrokerage(vol, rate)

\* Second copy (lines 609-627): exchange MCX AND entry found; no defaults
calcBrokerageB(trade, rate, map) ==
    IF trade.Type = "FORWARD" THEN Zero
    ELSE LET vol == OrElse(parseFloat(StrOr(trade.Vol, <<"0">>)), Zero)
             qty == OrElse(parseFloat(StrOr(trade.Qty, <<"0">>)), Zero)
             scriptKey == toUpperCase(trade.Script)
             found == scriptKey \in DOMAIN map
         IN  IF trade.Exchange = "MCX" /\ found
             THEN lotBrokerage(qty, map[scriptKey].lotQty, map[scriptKey].rate)
             ELSE flatBrokerage(vol, rate)

\* Mutant of calcBrokerage: the schedule is looked up under the grouping key
calcBrokerage_GroupKey(trade, rate, map) ==
    LET t == [trade EXCEPT !.Script = StrOr(toUpperCase(@), UNKNOWN)]
    IN  IF build = 1 THEN calcBrokerageA(t, rate, map) ELSE calcBrokerageB(t, rate, map)

\* The declaration the build binds
calcBrokerage(trade, rate, map) ==
    IF build = 1 THEN calcBrokerageA(trade, rate, map) ELSE calcBrokerageB(trade, rate, map)

\* ------------------------------------------------------------------ report
\* Property order of an ordinary object: array-index keys (canonical decimal
\* strings up to 2^32 - 2) ascending by value, then the other keys as created.
MaxArrayIndex == <<"4", "2", "9", "4", "9", "6", "7", "2", "9", "4">>

RECURSIVE LexLess(_, _, _)
LexLess(a, b, i) ==
    IF i > Len(a) THEN FALSE
    ELSE IF DigitVal(a[i]) # DigitVal(b[i]) THEN DigitVal(a[i]) < DigitVal(b[i])
    ELSE LexLess(a, b, i + 1)

\* a < b for canonical decimal strings
IndexLess(a, b) == Len(a) < Len(b) \/ (Len(a) = Len(b) /\ LexLess(a, b, 1))

IsArrayIndex(k) ==
    /\ Len(k) >= 1
    /\ \A i \in DOMAIN k : IsDigit(k[i])
    /\ Len(k) = 1 \/ k[1] # "0"
    /\ k = MaxArrayIndex \/ IndexLess(k, MaxArrayIndex)

RECURSIVE SortIndexKeys(_)
SortIndexKeys(S) ==
    IF S = {} THEN <<>>
    ELSE LET m == CHOOSE x \in S : \A y \in S : x = y \/ IndexLess(x, y)
         IN  <<m>> \o SortIndexKeys(S \ {m})

\* created: the keys in creation order
OwnKeys(created) ==
    LET notIdx(k) == ~IsArrayIndex(k)
    IN  SortIndexKeys({k \in Range(created) : IsArrayIndex(k)}) \o SelectSeq(created, notIdx)

\* t.Script.toUpperCase() || "UNKNOWN"
groupKey(t) == StrOr(toUpperCase(t.Script), UNKNOWN)

\* groups[key] = { script: key, exchange: t.Exchange, buys: [], sells: [] }
newGroup(key, t) == [script |-> key, exchange |-> t.Exchange, buys |-> <<>>, sells |-> <<>>]

\* Mutant of pushTrade: the trade is put at the front of the list (unshift)
pushTrade_Unshift(g, t) ==
    IF t.Action = "BUY"
    THEN [g EXCEPT !.buys = <<t>> \o @]
    ELSE [g EXCEPT !.sells = <<t>> \o @]

\* Mutant of pushTrade: only SELL trades go to sells, other actions are dropped
pushTrade_DropOther(g, t) ==
    IF t.Action = "BUY"
    THEN [g EXCEPT !.buys = Append(@, t)]
    ELSE IF t.Action = "SELL" THEN [g EXCEPT !.sells = Append(@, t)] ELSE g

\* if (t.Action === "BUY") buys.push(t); else sells.push(t)
pushTrade(g, t) ==
    IF t.Action = "BUY"
    THEN [g EXCEPT !.buys = Append(@, t)]
    ELSE [g EXCEPT !.sells = Append(@, t)]

\* Mutant of setExchange: the exchange of the first trade of the group is kept
setExchange_Keep(g, t) == g

\* groups[key].exchange = t.Exchange
setExchange(g, t) == [g EXCEPT !.exchange = t.Exchange]

\* The for loop of buildReport (lines 58-64, 651-657) from trade i on;
\* acc = [created |-> keys in creation order, groups |-> key -> group]
RECURSIVE groupLoop(_, _, _)
groupLoop(ts, i, acc) ==
    IF i > Len(ts) THEN acc
    ELSE LET t == ts[i]
             key == groupKey(t)
             isNew == key \notin DOMAIN acc.groups
             g0 == IF isNew THEN newGroup(key, t) ELSE acc.groups[key]
             g2 == setExchange(pushTrade(g0, t), t)
         IN  groupLoop(ts, i + 1,
                 [created |-> IF isNew THEN Append(acc.created, key) ELSE acc.created,
                  groups |-> [k \in (DOMAIN acc.groups) \cup {key} |->
                                 IF k = key THEN g2 ELSE acc.groups[k]]])

RECURSIVE SumNums(_)
SumNums(s) == IF s = <<>> THEN Zero ELSE Add(SumNums(SubSeq(s, 1, Len(s) - 1)), s[Len(s)])

\* Mutant of volOf: the parsed volume without the fallback to 0
volOf_NoDefault(t) == parseFloat(t.Vol)

\* parseFloat(t.Vol) || 0 (line 67); parseFloat(t.Vol || "0") || 0 (line 660)
volOf(t) ==
    IF build = 1 THEN OrElse(parseFloat(t.Vol), Zero)
    ELSE OrElse(parseFloat(StrOr(t.Vol, <<"0">>)), Zero)

\* Mutant of summarize: gross taken as buy volume minus sell volume
summarize_GrossSwapped(g, rate, map) ==
    LET buyVol == SumNums([i \in DOMAIN g.buys |-> volOf(g.buys[i])])
        sellVol == SumNums([i \in DOMAIN g.sells |-> volOf(g.sells[i])])
        buyBrk == SumNums([i \in DOMAIN g.buys |-> calcBrokerage(g.buys[i], rate, map)])
        sellBrk == SumNums([i \in DOMAIN g.sells |-> calcBrokerage(g.sells[i], rate, map)])
        totalBrk == Add(buyBrk, sellBrk)
        gross == Sub(buyVol, sellVol)
        net == Sub(gross, totalBrk)
    IN  [script |-> g.script, exchange |-> g.exchange, buys |-> g.buys, sells |-> g.sells,
         buyVol |-> buyVol, sellVol |-> sellVol, buyBrk |-> buyBrk, sellBrk |-> sellBrk,
         totalBrk |-> totalBrk, gross |-> gross, net |-> net]

\* The map callback of buildReport (lines 66-75, 659-670)
summarize(g, rate, map) ==
    LET buyVol == SumNums([i \in DOMAIN g.buys |-> volOf(g.buys[i])])
        sellVol == SumNums([i \in DOMAIN g.sells |-> volOf(g.sells[i])])
        buyBrk == SumNums([i \in DOMAIN g.buys |-> calcBrokerage(g.buys[i], rate, map)])
        sellBrk == SumNums([i \in DOMAIN g.sells |-> calcBrokerage(g.sells[i], rate, map)])
        totalBrk == Add(buyBrk, sellBrk)
        gross == Sub(sellVol, buyVol)
        net == Sub(gross, totalBrk)
    IN  [script |-> g.script, exchange |-> g.exchange, buys |-> g.buys, sells |-> g.sells,
         buyVol |-> buyVol, sellVol |-> sellVol, buyBrk |-> buyBrk, sellBrk |-> sellBrk,
         totalBrk |-> totalBrk, gross |-> gross, net |-> net]

buildReport(ts, rate, map) ==
    LET acc == groupLoop(ts, 1, [created |-> <<>>, groups |-> EmptyObject])
        order == OwnKeys(acc.created)
    IN  [i \in DOMAIN order |-> summarize(acc.groups[order[i]], rate, map)]

\* Mutant of exportTotals: the exported net total leaves the brokerage out
exportTotals_NetIsGross(rep) ==
    [totalGross |-> SumNums([i \in DOMAIN rep |-> rep[i].gross]),
     totalBrk |-> SumNums([i \in DOMAIN rep |-> rep[i].totalBrk]),
     totalNet |-> SumNums([i \in DOMAIN rep |-> rep[i].gross])]

\* Grand totals of exportPDF (lines 121-123)
exportTotals(rep) ==
    [totalGross |-> SumNums([i \in DOMAIN rep |-> rep[i].gross]),
     totalBrk |-> SumNums([i \in DOMAIN rep |-> rep[i].totalBrk]),
     totalNet |-> SumNums([i \in DOMAIN rep |-> rep[i].net])]

\* Grand totals of the report view (lines 235-237)
viewTotals(rep) ==
    [totalGross |-> SumNums([i \in DOMAIN rep |-> rep[i].gross]),
     totalBrk |-> SumNums([i \in DOMAIN rep |-> rep[i].totalBrk]),
     totalNet |-> SumNums([i \in DOMAIN rep |-> rep[i].net])]

\* ------------------------------------------------------------------ handlers
\* What the user can type or select in each control
ActionOptions == {"BUY", "SELL"}
TypeOptions == {"NORMAL", "FORWARD"}
ExchangeOptions == {"NSE", "MCX"}
DateInputs == {"01/02/26"}
QtyInputs == {<<>>, <<"2">>, <<"-", "5">>}
PriceInputs == {<<>>, <<"3">>, <<"0", ".", "1", "2", "5">>}
ScriptInputs == {<<>>, <<"g", "o", "l", "d">>, <<"1">>, <<"x", "-", "1">>}
RateInputs == {<<>>, <<"-", "1">>, <<"5", "0", "0", "0">>}
McxScriptInputs == {<<>>, <<"g", "o", "l", "d">>}
LotQtyInputs == {<<"0">>, <<"-", "2">>, <<"1", "0">>}
LotRateInputs == {<<>>, <<"-", "3">>}

\* e.target.value.toUpperCase().replace(/[^A-Z0-9]/g, "") (line 321)
scriptFilter(raw) ==
    LET keep(c) == c \in Range(UpperCase) \/ IsDigit(c)
    IN  SelectSeq(toUpperCase(raw), keep)

\* Mutant of derivedVol: the sum, not the product
derivedVol_Sum(r, field, val) ==
    LET q == IF field = "Qty" THEN parseFloat(val) ELSE parseFloat(r.Qty)
        p == IF field = "Price" THEN parseFloat(val) ELSE parseFloat(r.Price)
    IN  IF ~IsNaN(q) /\ ~IsNaN(p) THEN toFixed2(Add(q, p)) ELSE <<>>

\* The Vol that updateTrade derives (lines 101-105, 701-705)
derivedVol(r, field, val) ==
    LET q == IF field = "Qty" THEN parseFloat(val)
             ELSE IF build = 1 THEN parseFloat(r.Qty) ELSE parseFloat(StrOr(r.Qty, <<"0">>))
        p == IF field = "Price" THEN parseFloat(val)
             ELSE IF build = 1 THEN parseFloat(r.Price) ELSE parseFloat(StrOr(r.Price, <<"0">>))
    IN  IF ~IsNaN(q) /\ ~IsNaN(p) THEN toFixed2(Mul(q, p)) ELSE <<>>

\* Mutant of updatedRows: the id is not compared, every row is updated
updatedRows_AllRows(prev, id, field, val) ==
    [i \in DOMAIN prev |->
        LET updated == [prev[i] EXCEPT ![field] = val]
        IN  IF field \in {"Qty", "Price"}
            THEN [updated EXCEPT !.Vol = derivedVol(prev[i], field, val)]
            ELSE updated]

\* prev.map(...) of updateTrade
updatedRows(prev, id, field, val) ==
    [i \in DOMAIN prev |->
        IF prev[i].id # id THEN prev[i]
        ELSE LET updated == [prev[i] EXCEPT ![field] = val]
             IN  IF field \in {"Qty", "Price"}
                 THEN [updated EXCEPT !.Vol = derivedVol(prev[i], field, val)]
                 ELSE updated]

\* useMemo report: recomputed on every change of trades, nseRate or mcxMap
Render ==
    /\ report' = buildReport(trades', nseRate', mcxMap(mcxScripts'))
    /\ nops' = nops + 1
    /\ UNCHANGED <<build, pc>>

FieldInputs(field) ==
    CASE field = "Date" -> DateInputs
      [] field = "Action" -> ActionOptions
      [] field = "Qty" -> QtyInputs
      [] field = "Price" -> PriceInputs
      [] field = "Script" -> {scriptFilter(raw) : raw \in ScriptInputs}
      [] field = "Type" -> TypeOptions
      [] field = "Exchange" -> ExchangeOptions

TradeFields == {"Date", "Action", "Qty", "Price", "Script", "Type", "Exchange"}

updateTrade ==
    /\ nops < MaxOps
    /\ \E i \in DOMAIN trades, field \in TradeFields :
         \E val \in FieldInputs(field) :
            trades' = updatedRows(trades, trades[i].id, field, val)
    /\ UNCHANGED <<nseRate, mcxScripts, nextId>>
    /\ Render

addTrade ==
    /\ nops < MaxOps
    /\ Len(trades) < MaxTrades
    /\ trades' = Append(trades, defaultRow(nextId))
    /\ nextId' = nextId + 1
    /\ UNCHANGED <<nseRate, mcxScripts>>
    /\ Render

\* Mutant of removeTrade: the delete button is never disabled
removeTrade_NoGuard ==
    /\ nops < MaxOps
    /\ \E i \in DOMAIN trades :
         LET keep(r) == r.id # trades[i].id IN trades' = SelectSeq(trades, keep)
    /\ UNCHANGED <<nseRate, mcxScripts, nextId>>
    /\ Render

\* the delete button is disabled while trades.length === 1 (line 334)
removeTrade ==
    /\ nops < MaxOps
    /\ Len(trades) # 1
    /\ \E i \in DOMAIN trades :
         LET keep(r) == r.id # trades[i].id IN trades' = SelectSeq(trades, keep)
    /\ UNCHANGED <<nseRate, mcxScripts, nextId>>
    /\ Render

\* onChange of the rate input: setNseRate(parseFloat(e.target.value) || 0)
setNseRate ==
    /\ nops < MaxOps
    /\ \E raw \in RateInputs : nseRate' = OrElse(parseFloat(raw), Zero)
    /\ UNCHANGED <<trades, mcxScripts, nextId>>
    /\ Render

McxFieldInputs(field) ==
    CASE field = "script" -> {toUpperCase(raw) : raw \in McxScriptInputs}
      [] field = "lotQty" -> {OrElse(parseFloat(raw), Num(1)) : raw \in LotQtyInputs}
      [] field = "rate" -> {OrElse(parseFloat(raw), Zero) : raw \in LotRateInputs}

updateMcx ==
    /\ nops < MaxOps
    /\ \E i \in DOMAIN mcxScripts, field \in {"script", "lotQty", "rate"} :
         \E val \in McxFieldInputs(field) :
            mcxScripts' = [mcxScripts EXCEPT ![i][field] = val]
    /\ UNCHANGED <<trades, nseRate, nextId>>
    /\ Render

addMcx ==
    /\ nops < MaxOps
    /\ Len(mcxScripts) < MaxMcx
    /\ mcxScripts' = Append(mcxScripts, [script |-> <<>>, lotQty |-> Num(1), rate |-> Zero])
    /\ UNCHANGED <<trades, nseRate, nextId>>
    /\ Render

removeMcx ==
    /\ nops < MaxOps
    /\ \E i \in DOMAIN mcxScripts :
         mcxScripts' = [j \in 1..(Len(mcxScripts) - 1) |->
                           IF j < i THEN mcxScripts[j] ELSE mcxScripts[j + 1]]
    /\ UNCHANGED <<trades, nseRate, nextId>>
    /\ Render

\* The component after its first render
Init ==
    /\ build \in {1, 2}
    /\ trades = <<defaultRow(0)>>
    /\ nextId = 1
    /\ nseRate = Num(DEFAULT_NSE_RATE)
    /\ mcxScripts = DEFAULT_MCX_SCRIPTS
    /\ report = buildReport(trades, nseRate, mcxMap(mcxScripts))
    /\ nops = 0
    /\ pc = "done"

Next ==
    \/ updateTrade
    \/ addTrade
    \/ removeTrade
    \/ setNseRate
    \/ updateMcx
    \/ addMcx
    \/ removeMcx

Spec == Init /\ [][Next]_vars

\* The entry view alone: the settings keep their defaults
NextEntry ==
    \/ updateTrade
    \/ addTrade
    \/ removeTrade

SpecEntry == Init /\ [][NextEntry]_vars

\* ------------------------------------------------------------------ engine called directly
\* calcBrokerage and buildReport are pure functions of their arguments; here
\* the arguments are drawn from bounded sets, not produced by the handlers.
ABC == <<"a", "b", "c">>
FnQty == {<<>>, <<"2", "0", "0">>, <<"1", "0">>, <<"-", "5">>}
FnVol == {<<>>, <<"5", "0", "0", "0", "0", "0", ".", "0", "0">>, ABC}
FnScript == {<<>>, CRUDEOIL, <<"g", "o", "l", "d">>, <<"X">>, <<"1">>}
FnRates == {Num(DEFAULT_NSE_RATE), Num(25)}
\* schedules with an entry named like the reserved group, without and with an
\* entry of empty symbol (the symbol addMcx gives a new entry)
UnknownSchedules ==
    { << [script |-> UNKNOWN, lotQty |-> Num(5), rate |-> Num(9)] >>,
      << [script |-> UNKNOWN, lotQty |-> Num(5), rate |-> Num(9)],
         [script |-> <<>>, lotQty |-> Num(2), rate |-> Num(3)] >> }

FnSchedules ==
    { DEFAULT_MCX_SCRIPTS,
      <<>>,
      << [script |-> GOLD, lotQty |-> Zero, rate |-> Num(40)],
         [script |-> <<"1">>, lotQty |-> Num(4), rate |-> Num(7)] >>,
      << [script |-> <<"G", "o", "l", "d">>, lotQty |-> Num(10), rate |-> Num(5)] >> }
        \cup UnknownSchedules

\* a single trade with every combination of fields
FnSingle(a, q, v, s, ty, e) ==
    <<[id |-> 1, Date |-> "", Action |-> a, Qty |-> q, Price |-> <<>>, Vol |-> v,
       Script |-> s, Type |-> ty, Exchange |-> e]>>

\* lists of up to MaxLen trades
ListTrade(i, a, s, v) ==
    [id |-> i, Date |-> "", Action |-> a, Qty |-> <<"2">>, Price |-> <<>>,
     Vol |-> v.Vol, Script |-> s, Type |-> "NORMAL", Exchange |-> v.Exchange]

ListVariants == { [Exchange |-> "NSE", Vol |-> <<"6", ".", "0", "0">>],
                  [Exchange |-> "MCX", Vol |-> ABC] }

ListShapes == ActionOptions \X {<<>>, GOLD, <<"1">>} \X ListVariants

\* pairs of trades whose symbol is empty or reads "UNKNOWN"
UnknownScripts == {<<>>, UNKNOWN, <<"u", "n", "k", "n", "o", "w", "n">>}

InitFn ==
    /\ build \in {1, 2}
    /\ \/ /\ \E a \in ActionOptions \cup {"HOLD"}, q \in FnQty, v \in FnVol, s \in FnScript,
                ty \in TypeOptions, e \in ExchangeOptions :
                   trades = FnSingle(a, q, v, s, ty, e)
          /\ nseRate \in FnRates
          /\ mcxScripts \in FnSchedules
       \/ /\ \E n \in 0..MaxLen :
                \E f \in [1..n -> ListShapes] :
                   trades = [i \in 1..n |-> ListTrade(i, f[i][1], f[i][2], f[i][3])]
          /\ nseRate = Num(DEFAULT_NSE_RATE)
          /\ mcxScripts = DEFAULT_MCX_SCRIPTS
       \/ /\ \E a \in ActionOptions, s1 \in UnknownScripts, s2 \in UnknownScripts,
                v \in ListVariants :
                   trades = <<ListTrade(1, "BUY", s1, v), ListTrade(2, a, s2, v)>>
          /\ nseRate = Num(DEFAULT_NSE_RATE)
          /\ mcxScripts \in UnknownSchedules
    /\ report = <<>>
    /\ nextId = 0
    /\ nops = 0
    /\ pc = "args"

callBuildReport ==
    /\ pc = "args"
    /\ report' = buildReport(trades, nseRate, mcxMap(mcxScripts))
    /\ pc' = "done"
    /\ UNCHANGED <<build, trades, nseRate, mcxScripts, nextId, nops>>

NextFn == callBuildReport

SpecFn == InitFn /\ [][NextFn]_vars

\* ------------------------------------------------------------------ claims
\* Quantities the claims speak of, read off the arguments
brokerageOf(i) == calcBrokerage(trades[i], nseRate, mcxMap(mcxScripts))
QtyNum(t) == LET x == parseFloat(t.Qty) IN IF IsNaN(x) THEN Zero ELSE x
VolNum(t) == LET x == parseFloat(t.Vol) IN IF IsNaN(x) THEN Zero ELSE x
EntryIndexes(t) ==
    {j \in DOMAIN mcxScripts : toUpperCase(mcxScripts[j].script) = toUpperCase(t.Script)}
HasEntry(t) == EntryIndexes(t) # {}
LastEntry(t) == mcxScripts[CHOOSE j \in EntryIndexes(t) : \A k \in EntryIndexes(t) : k <= j]

\* C1: a FORWARD trade has brokerage exactly 0, whatever its other fields, the
\* flat rate and the lot schedule are (a lot size of 0 included).
C1_ForwardIsFree ==
    pc = "done" =>
        \A i \in DOMAIN trades :
            trades[i].Type = "FORWARD" => brokerageOf(i) = Zero

C1_Witness ==
    /\ pc = "done"
    /\ Len(trades) = 1
    /\ trades[1].Type = "FORWARD"
    /\ trades[1].Exchange = "MCX"
    /\ HasEntry(trades[1])
    /\ LastEntry(trades[1]).lotQty = Zero
    /\ QtyNum(trades[1]) # Zero
    /\ brokerageOf(1) = Zero
    /\ report[1].totalBrk = Zero

\* C2: a non-FORWARD trade whose uppercased symbol has a schedule entry is priced
\* lot-based, (Q / L) * P, whatever its exchange is.
C2_EntrySelectsLotBased ==
    pc = "done" =>
        \A i \in DOMAIN trades :
            (trades[i].Type # "FORWARD" /\ HasEntry(trades[i])) =>
                brokerageOf(i) = Mul(Div(QtyNum(trades[i]), LastEntry(trades[i]).lotQty),
                                     LastEntry(trades[i]).rate)

\* C3: a non-FORWARD MCX trade whose symbol has no schedule entry is priced with
\* lot size 1 and rate 40: quantity * 40.
C3_McxDefaults ==
    pc = "done" =>
        \A i \in DOMAIN trades :
            (trades[i].Type # "FORWARD" /\ trades[i].Exchange = "MCX" /\ ~HasEntry(trades[i])) =>
                brokerageOf(i) = Mul(QtyNum(trades[i]), Num(40))

\* C4: a non-FORWARD trade that is neither MCX nor in the schedule is priced
\* volume * flatRate / 10,000,000, whatever its quantity and the schedule are.
C4_FlatRate ==
    pc = "done" =>
        \A i \in DOMAIN trades :
            (trades[i].Type # "FORWARD" /\ trades[i].Exchange # "MCX" /\ ~HasEntry(trades[i])) =>
                brokerageOf(i) = Div(Mul(VolNum(trades[i]), nseRate), Num(10000000))

C4_Witness ==
    /\ pc = "done"
    /\ Len(trades) = 1
    /\ trades[1].Type = "NORMAL"
    /\ trades[1].Exchange = "NSE"
    /\ ~HasEntry(trades[1])
    /\ QtyNum(trades[1]) = Num(200)
    /\ VolNum(trades[1]) = Num(500000)
    /\ nseRate = Num(3000)
    /\ mcxScripts # <<>>
    /\ brokerageOf(1) = Num(150)
    /\ report[1].totalBrk = Num(150)

\* C5: the brokerage of every trade the handlers can produce is >= 0, and so are
\* buyBrk, sellBrk and totalBrk of every group of the report.
C5_BrokerageNonNegative ==
    /\ \A i \in DOMAIN trades : Geq(brokerageOf(i), Zero)
    /\ \A g \in DOMAIN report :
          /\ Geq(report[g].buyBrk, Zero)
          /\ Geq(report[g].sellBrk, Zero)
          /\ Geq(report[g].totalBrk, Zero)

\* The key a trade is grouped under, as the claims state it
KeyOf(t) == IF t.Script = <<>> THEN UNKNOWN ELSE toUpperCase(t.Script)
IndexesOf(key) == {i \in DOMAIN trades : KeyOf(trades[i]) = key}
FirstIndex(key) == CHOOSE i \in IndexesOf(key) : \A j \in IndexesOf(key) : i <= j
LastIndex(key) == CHOOSE i \in IndexesOf(key) : \A j \in IndexesOf(key) : j <= i

RECURSIVE IsSubseq(_, _)
IsSubseq(sub, full) ==
    IF sub = <<>> THEN TRUE
    ELSE IF full = <<>> THEN FALSE
    ELSE IF Head(sub) = Head(full) THEN IsSubseq(Tail(sub), Tail(full))
    ELSE IsSubseq(sub, Tail(full))

\* C6: the groups of the report come in first-seen order: group A precedes group
\* B exactly when the first trade keyed A precedes the first trade keyed B.
C6_FirstSeenOrder ==
    pc = "done" =>
        /\ \A a \in DOMAIN report : IndexesOf(report[a].script) # {}
        /\ \A a, b \in DOMAIN report :
              a < b <=> FirstIndex(report[a].script) < FirstIndex(report[b].script)

\* C7: every trade is in the group keyed by its uppercased symbol ("UNKNOWN" for
\* the empty symbol), and each group's buys and sells are subsequences of the
\* input list in input order.
C7_GroupingKeepsOrder ==
    pc = "done" =>
        /\ \A i \in DOMAIN trades :
              \E g \in DOMAIN report :
                  /\ report[g].script = KeyOf(trades[i])
                  /\ trades[i] \in Range(report[g].buys) \cup Range(report[g].sells)
        /\ \A g \in DOMAIN report :
              /\ IsSubseq(report[g].buys, trades)
              /\ IsSubseq(report[g].sells, trades)

C7_Witness ==
    /\ pc = "done"
    /\ Len(trades) = 3
    /\ trades[1].Script = <<>> /\ trades[1].Action = "BUY"
    /\ trades[2].Script = GOLD /\ trades[2].Action = "BUY"
    /\ trades[3].Script = <<>> /\ trades[3].Action = "BUY"
    /\ trades[1] # trades[3]
    /\ \E g \in DOMAIN report :
          /\ report[g].script = UNKNOWN
          /\ report[g].buys = <<trades[1], trades[3]>>

\* C8: in every group buyVol and sellVol are the sums of the volumes of buys and
\* sells (an unparseable volume counts 0), buyBrk and sellBrk the sums of
\* calcBrokerage over them, totalBrk = buyBrk + sellBrk, gross = sellVol - buyVol
\* and net = gross - totalBrk.
C8_GroupSums ==
    pc = "done" =>
        \A g \in DOMAIN report :
            LET r == report[g]
                brk(t) == calcBrokerage(t, nseRate, mcxMap(mcxScripts))
            IN  /\ r.buyVol = SumNums([k \in DOMAIN r.buys |-> VolNum(r.buys[k])])
                /\ r.sellVol = SumNums([k \in DOMAIN r.sells |-> VolNum(r.sells[k])])
                /\ r.buyBrk = SumNums([k \in DOMAIN r.buys |-> brk(r.buys[k])])
                /\ r.sellBrk = SumNums([k \in DOMAIN r.sells |-> brk(r.sells[k])])
                /\ r.totalBrk = Add(r.buyBrk, r.sellBrk)
                /\ r.gross = Sub(r.sellVol, r.buyVol)
                /\ r.net = Sub(r.gross, r.totalBrk)

C8_Witness ==
    /\ pc = "done"
    /\ Len(trades) = 3
    /\ Len(report) = 1
    /\ Len(report[1].buys) = 2
    /\ report[1].buys[1].Vol = ABC
    /\ report[1].buyVol = Num(6)
    /\ report[1].sellVol = Zero
    /\ report[1].gross = Num(-6)
    /\ report[1].buyBrk # Zero
    /\ report[1].sellBrk # Zero
    /\ report[1].net = Sub(Num(-6), report[1].totalBrk)

C10_LastExchangeWins ==
    pc = "done" =>
        \A g \in DOMAIN report :
            /\ IndexesOf(report[g].script) # {}
            /\ report[g].exchange = trades[LastIndex(report[g].script)].Exchange

C10_Witness ==
    /\ pc = "done"
    /\ Len(trades) = 3
    /\ Len(report) = 1
    /\ trades[1].Exchange = "MCX" /\ trades[1].Action = "BUY"
    /\ trades[2].Exchange = "MCX" /\ trades[2].Action = "BUY"
    /\ trades[3].Exchange = "NSE" /\ trades[3].Action = "SELL"
    /\ report[1].exchange = "NSE"

UpperSchedule ==
    [j \in DOMAIN mcxScripts |-> [mcxScripts[j] EXCEPT !.script = toUpperCase(@)]]

\* C11: schedule lookup is case-insensitive on both sides: a trade is priced the
\* same as the trade with its symbol uppercased against the schedule with its
\* symbols uppercased, and the map is keyed by the uppercased configured symbols.
C11_CaseInsensitiveLookup ==
    pc = "done" =>
        /\ DOMAIN mcxMap(mcxScripts) = {toUpperCase(mcxScripts[j].script) : j \in DOMAIN mcxScripts}
        /\ \A i \in DOMAIN trades :
              calcBrokerage(trades[i], nseRate, mcxMap(mcxScripts))
                  = calcBrokerage([trades[i] EXCEPT !.Script = toUpperCase(@)], nseRate,
                                  mcxMap(UpperSchedule))

C11_Witness ==
    /\ pc = "done"
    /\ Len(trades) = 1
    /\ trades[1].Script = <<"g", "o", "l", "d">>
    /\ trades[1].Type = "NORMAL"
    /\ trades[1].Exchange = "MCX"
    /\ QtyNum(trades[1]) = Num(200)
    /\ mcxScripts[1].script = <<"G", "o", "l", "d">>
    /\ brokerageOf(1) = Num(100)
    /\ report[1].totalBrk = Num(100)

\* C12: after any sequence of addMcx, updateMcx and removeMcx from the default
\* schedule, every entry of the schedule has a lot size strictly greater than 0.
C12_LotSizePositive ==
    \A j \in DOMAIN mcxScripts :
        /\ ~IsNaN(mcxScripts[j].lotQty)
        /\ Sign(mcxScripts[j].lotQty[1]) = 1

OtherFields == TradeFields \ {"Qty", "Price"}

VolIsProduct(r) ==
    LET q == parseFloat(r.Qty)
        p == parseFloat(r.Price)
    IN  (~IsNaN(q) /\ ~IsNaN(p)) => r.Vol = toFixed2(Mul(q, p))

OtherChangeKeepsVol ==
    \A i \in DOMAIN trades, j \in DOMAIN trades' :
        (/\ trades[i].id = trades'[j].id
         /\ \E f \in OtherFields : trades'[j][f] # trades[i][f])
            => trades'[j].Vol = trades[i].Vol

\* C13: after any sequence of updateTrade operations a row's Vol is its
\* quantity times its price, formatted to two decimals, whenever both parse as
\* numbers; and a step that changes another field of a row leaves its Vol alone.
C13_VolIsQtyTimesPrice ==
    /\ [](\A i \in DOMAIN trades : VolIsProduct(trades[i]))
    /\ [][OtherChangeKeepsVol]_vars

C13_Witness ==
    /\ nops = 3
    /\ Len(trades) = 1
    /\ trades[1].Qty = <<"-", "5">>
    /\ trades[1].Price = <<"0", ".", "1", "2", "5">>
    /\ trades[1].Vol = <<"-", "0", ".", "6", "3">>
    /\ trades[1].Exchange = "MCX"

\* C14: after any sequence of updateTrade operations a row whose current
\* quantity or price is missing or unparseable has the empty Vol, never "0.00":
\* Vol is non-empty only when both fields parse.
C14_EmptyVolWhenUnparsed ==
    \A i \in DOMAIN trades :
        (IsNaN(parseFloat(trades[i].Qty)) \/ IsNaN(parseFloat(trades[i].Price)))
            => trades[i].Vol = <<>>

ZeroFilled(t) ==
    [t EXCEPT !.Qty = IF IsNaN(parseFloat(t.Qty)) THEN <<"0">> ELSE @,
              !.Vol = IF IsNaN(parseFloat(t.Vol)) THEN <<"0">> ELSE @]

Aggregates(rep) ==
    [g \in DOMAIN rep |->
        [script |-> rep[g].script, exchange |-> rep[g].exchange,
         buyVol |-> rep[g].buyVol, sellVol |-> rep[g].sellVol,
         buyBrk |-> rep[g].buyBrk, sellBrk |-> rep[g].sellBrk,
         totalBrk |-> rep[g].totalBrk, gross |-> rep[g].gross, net |-> rep[g].net]]

\* C16: buildReport is defined on every input: the empty list gives the empty
\* report; a trade whose quantity or volume is empty or unparseable counts as
\* quantity 0 resp. volume 0 in every sum; a trade with the empty symbol is
\* grouped under "UNKNOWN".
C16_TotalOnEveryInput ==
    pc = "done" =>
        /\ trades = <<>> => report = <<>>
        /\ Aggregates(report)
             = Aggregates(buildReport([i \in DOMAIN trades |-> ZeroFilled(trades[i])],
                                      nseRate, mcxMap(mcxScripts)))
        /\ \A i \in DOMAIN trades :
              trades[i].Script = <<>> =>
                  \E g \in DOMAIN report :
                      /\ report[g].script = UNKNOWN
                      /\ \/ \E k \in DOMAIN report[g].buys : report[g].buys[k] = trades[i]
                         \/ \E k \in DOMAIN report[g].sells : report[g].sells[k] = trades[i]

C16_Witness ==
    /\ pc = "done"
    /\ Len(trades) = 1
    /\ trades[1].Script = <<>>
    /\ trades[1].Qty = <<>>
    /\ trades[1].Vol = ABC
    /\ trades[1].Action = "SELL"
    /\ trades[1].Type = "NORMAL"
    /\ Len(report) = 1
    /\ report[1].script = UNKNOWN
    /\ report[1].sells = trades
    /\ report[1].sellVol = Zero
    /\ report[1].totalBrk = Zero
    /\ report[1].net = Zero

SameSymbol(j) ==
    {k \in DOMAIN mcxScripts :
        toUpperCase(mcxScripts[k].script) = toUpperCase(mcxScripts[j].script)}

MapHoldsLast ==
    \A j \in DOMAIN mcxScripts :
        (\A k \in SameSymbol(j) : k <= j) =>
            mcxMap(mcxScripts)[toUpperCase(mcxScripts[j].script)] = mcxScripts[j]

\* C17: when several entries of the schedule have the same symbol after
\* uppercasing, the map holds the last of them in list order and a non-FORWARD
\* trade with that symbol is priced (Q / L) * P with the last entry's lot size
\* and rate, after any sequence of addMcx, updateMcx and removeMcx.
C17_LastDuplicateWins ==
    /\ MapHoldsLast
    /\ \A i \in DOMAIN trades :
          (Cardinality(EntryIndexes(trades[i])) >= 2 /\ trades[i].Type # "FORWARD") =>
              brokerageOf(i) = Mul(Div(QtyNum(trades[i]), LastEntry(trades[i]).lotQty),
                                   LastEntry(trades[i]).rate)

\* Where trade t occurs in the report: <<group, list, position>>
Places(t) ==
    {pl \in (DOMAIN report) \X {"buys", "sells"} \X (1..Len(trades)) :
        /\ pl[3] \in DOMAIN report[pl[1]][pl[2]]
        /\ report[pl[1]][pl[2]][pl[3]] = t}

GroupSizes == [g \in DOMAIN report |-> Len(report[g].buys) + Len(report[g].sells)]

RECURSIVE SumNat(_)
SumNat(s) == IF s = <<>> THEN 0 ELSE SumNat(SubSeq(s, 1, Len(s) - 1)) + s[Len(s)]

\* C18: buildReport partitions its input: every trade occurs exactly once in the
\* report, in buys if its action is BUY and in sells otherwise; no group is
\* empty; group keys are pairwise distinct; the groups hold as many trades as
\* the input list.
C18_ReportPartitionsTrades ==
    pc = "done" =>
        /\ \A i \in DOMAIN trades :
              /\ Cardinality(Places(trades[i])) = 1
              /\ \A pl \in Places(trades[i]) :
                    /\ pl[2] = (IF trades[i].Action = "BUY" THEN "buys" ELSE "sells")
                    /\ report[pl[1]].script = groupKey(trades[i])
        /\ \A g \in DOMAIN report : GroupSizes[g] >= 1
        /\ \A g, h \in DOMAIN report : report[g].script = report[h].script => g = h
        /\ SumNat(GroupSizes) = Len(trades)

C18_Witness ==
    /\ pc = "done"
    /\ Len(trades) = 3
    /\ trades[1].Action = "SELL"
    /\ trades[2].Action = "BUY"
    /\ trades[3].Action = "SELL"
    /\ trades[1].Script = trades[3].Script
    /\ trades[1].Script # trades[2].Script
    /\ Len(report) = 2
    /\ \E g \in DOMAIN report : report[g].sells = <<trades[1], trades[3]>> /\ report[g].buys = <<>>
    /\ \E g \in DOMAIN report : report[g].buys = <<trades[2]>> /\ report[g].sells = <<>>

C18_WitnessOtherAction ==
    /\ pc = "done"
    /\ Len(trades) = 1
    /\ trades[1].Action \notin {"BUY", "SELL"}
    /\ report[1].sells = trades
    /\ report[1].buys = <<>>

\* C19: from the initial single row, after any sequence of addTrade and
\* removeTrade that the entry view permits (and any updateTrade), the trade list
\* has at least one row and the report at least one group, so the empty-report
\* branch of the report view is not reached.
C19_NeverEmpty ==
    /\ Len(trades) >= 1
    /\ Len(report) >= 1

C19_Witness ==
    /\ nops >= 2
    /\ Len(trades) = 1
    /\ trades[1].id # 0
    /\ Len(report) = 1
    /\ report[1].buys = trades

RowFields == TradeFields \cup {"id", "Vol"}

\* a step that keeps the number of rows: one updateTrade(id, field, val)
UpdateFrame ==
    Len(trades') = Len(trades) =>
        \E i \in DOMAIN trades, field \in TradeFields :
            /\ \A j \in DOMAIN trades : j # i => trades'[j] = trades[j]
            /\ \A f \in RowFields :
                  (f # field /\ ~(f = "Vol" /\ field \in {"Qty", "Price"}))
                      => trades'[i][f] = trades[i][f]

\* a step that adds a row: addTrade
AddFrame ==
    Len(trades') = Len(trades) + 1 =>
        /\ SubSeq(trades', 1, Len(trades)) = trades
        /\ LET new == trades'[Len(trades')]
           IN  /\ new.Action = "BUY" /\ new.Type = "NORMAL" /\ new.Exchange = "NSE"
               /\ new.Qty = <<>> /\ new.Price = <<>> /\ new.Vol = <<>> /\ new.Script = <<>>
               /\ new.Date = ""

\* C20: updateTrade changes only the row with the given id, keeps the number
\* and order of rows, and changes in that row only the named field (and Vol when
\* the field is Qty or Price); addTrade appends one default row (BUY, NORMAL,
\* NSE, empty quantity, price, volume and symbol) and keeps the existing rows.
C20_UpdateAndAddFrame == [][UpdateFrame /\ AddFrame]_vars

C20_Witness ==
    /\ nops = 3
    /\ Len(trades) = 2
    /\ trades[1] = defaultRow(0)
    /\ trades[2] = [defaultRow(1) EXCEPT !.Qty = <<"2">>, !.Price = <<"3">>,
                                         !.Vol = <<"6", ".", "0", "0">>]

\* the schedule without the entries whose uppercased symbol reads "UNKNOWN"
WithoutUnknown ==
    LET keep(e) == toUpperCase(e.script) # UNKNOWN IN SelectSeq(mcxScripts, keep)

GroupOf(t) == {pl[1] : pl \in Places(t)}

\* C21: an empty-symbol trade is grouped under "UNKNOWN" but looked up in the
\* schedule under the empty string: entries named "UNKNOWN" do not change its
\* brokerage, an entry with the empty symbol is the one its lookup finds (and
\* prices it when it is an MCX trade), and a trade whose symbol reads "UNKNOWN"
\* is in the same group as the empty-symbol trades.
C21_GroupKeyIsNotLookupKey ==
    pc = "done" =>
        /\ \A i \in DOMAIN trades :
              trades[i].Script = <<>> =>
                  /\ \A g \in GroupOf(trades[i]) : report[g].script = UNKNOWN
                  /\ brokerageOf(i) = calcBrokerage(trades[i], nseRate, mcxMap(WithoutUnknown))
                  /\ HasEntry(trades[i]) =>
                        /\ <<>> \in DOMAIN mcxMap(mcxScripts)
                        /\ mcxMap(mcxScripts)[<<>>] = LastEntry(trades[i])
                        /\ LastEntry(trades[i]).script = <<>>
                        /\ (trades[i].Type # "FORWARD" /\ trades[i].Exchange = "MCX") =>
                              brokerageOf(i) = Mul(Div(QtyNum(trades[i]), LastEntry(trades[i]).lotQty),
                                                   LastEntry(trades[i]).rate)
        /\ \A i, j \in DOMAIN trades :
              (trades[i].Script = <<>> /\ toUpperCase(trades[j].Script) = UNKNOWN) =>
                  /\ GroupOf(trades[i]) = GroupOf(trades[j])
                  /\ GroupOf(trades[i]) # {}

C21_Witness ==
    /\ pc = "done"
    /\ Len(trades) = 2
    /\ trades[1].Script = <<>>
    /\ trades[2].Script = UNKNOWN
    /\ trades[1].Exchange = "MCX"
    /\ Len(mcxScripts) = 2
    /\ mcxScripts[1].script = UNKNOWN
    /\ mcxScripts[2].script = <<>>
    /\ Len(report) = 1
    /\ report[1].script = UNKNOWN
    /\ brokerageOf(1) = Num(3)
    /\ brokerageOf(2) = Div(Num(18), Num(5))
    /\ report[1].totalBrk = Div(Num(33), Num(5))

====
